---- MODULE Spec2Model ----
(***************************************************************************)
(* A model of remember_me_mcp_server: the persistent resources of          *)
(* context.py (snippet, summary, rule) over one SQLite file and their      *)
(* registry, the file level backups of backup.py, and of server.py the     *)
(* resource handlers, the rule removal tool and the restore tool.          *)
(*                                                                         *)
(* A table is the bag (multiset) of its rows: SQL gives a query without    *)
(* ORDER BY no order.  Python strings that the code only compares are      *)
(* TLA+ strings; file names and backup names, which the code composes and  *)
(* slices, are sequences of one character strings.                         *)
(***************************************************************************)
EXTENDS Integers, Sequences, FiniteSets, Bags, TLC

VARIABLES
    exists,     \* the store file (MY_CONTEXT_DB_PATH) exists on disk
    db,         \* MyContext.db, the cached connection: "unopened", "open"
                \* or "closed"
    opened,     \* the connections made to the store file so far, counted
    resources,  \* MyContext.resources, the cached handlers: resource type
                \* -> the connection it holds, by its number; <<>> before
    tables,     \* content of the store file: table name -> rows
    backups,    \* the backup directory: file name -> content of that file
    clock,      \* the last value time.time_ns() returned
    target,     \* Backup.target_path.name, the base name of the store file
    created,    \* history: backup name -> the store's content when the
                \* create that made the (still present) backup returned
    requests,   \* the tool requests the server has taken: each with the
                \* number of segments of its body that have run
    last        \* the last call: operation, arguments and outcome

vars == <<exists, db, opened, resources, tables, backups, clock, target,
          created, requests, last>>

backupVars == <<backups, clock, target, created>>

(***************************************************************************)
(* Bounds of the model.                                                    *)
(***************************************************************************)
MaxRows == 2        \* rows the store file may hold, all tables together
MaxClock == 1       \* calls of time.time_ns() in one behaviour
MaxOpens == 2       \* connections made to one store file, by all registries
MaxRequests == 4    \* requests the server takes in one behaviour

(***************************************************************************)
(* Values.                                                                 *)
(***************************************************************************)
\* Python None, stored by sqlite3 as SQL NULL: a value that is no string.
None == "<None>"

ALLOWED_RULE_POLICIES == {"MUST", "MUST NOT", "SHOULD", "SHOULD NOT", "MAY"}

resource_types == {"rule", "snippet", "summary"}

resource_table(res) == IF res = "rule" THEN "rules" ELSE res

TableNames == {resource_table(res) : res \in resource_types}

EmptyStore == [t \in TableNames |-> EmptyBag]

StoreSize(store) ==
    BagCardinality(store["rules"]) + BagCardinality(store["snippet"])
        + BagCardinality(store["summary"])

(***************************************************************************)
(* Outcomes of a call: a returned value, or a raised exception.  kind is   *)
(* the error kind the message of a ResourceError or BackupError states,    *)
(* or the class name of any other exception.  A status message is the     *)
(* tuple of its distinguishing words.                                      *)
(***************************************************************************)
Ok(out) == [ok |-> TRUE, kind |-> "", out |-> out]

Err(kind) == [ok |-> FALSE, kind |-> kind, out |-> <<>>]

Call(op, res, args, result) ==
    [op |-> op, res |-> res, args |-> args,
     ok |-> result.ok, kind |-> result.kind, out |-> result.out]

(***************************************************************************)
(* SQL comparison.  "a = b" is never true when either side is NULL;        *)
(* "a IS b" is true of two NULLs.                                          *)
(***************************************************************************)
SqlEq(a, b) == a # None /\ b # None /\ a = b

SqlIs(a, b) == a = b

\* The rows of a table that a WHERE clause selects (hits, a set of rows of
\* the table), and the others.
Where(rows, hits) == [r \in hits |-> rows[r]]

WhereNot(rows, hits) == [r \in DOMAIN rows \ hits |-> rows[r]]

\* cursor.rowcount after an UPDATE or DELETE with that WHERE clause.
RowCount(rows, hits) == BagCardinality(Where(rows, hits))

\* UPDATE ... SET ... WHERE: every selected row r becomes change[r].
Update(rows, hits, change) ==
    LET image == {change[r] : r \in hits}
    IN  WhereNot(rows, hits)
            (+) [x \in image |->
                   BagCardinality(Where(rows, {r \in hits : change[r] = x}))]

Insert(rows, row) == rows (+) SetToBag({row})

\* UNIQUE(key, context): NULLs are distinct from each other in a UNIQUE index.
ResourceUnique(rows, row) ==
    \A r \in DOMAIN rows :
        ~(SqlEq(r.key, row.key) /\ SqlEq(r.context, row.context))

(***************************************************************************)
(* PersistentResource, the class behind "snippet" and "summary".  Each     *)
(* operator gives the rows after the call and the call's outcome.          *)
(***************************************************************************)
PersistentResource_get(rows, context, key) ==
    LET found == Where(rows, {r \in DOMAIN rows :
                        SqlEq(r.context, context) /\ SqlEq(r.key, key)})
    IN  IF found = EmptyBag
        THEN Err("NotFound")
        ELSE LET result == CHOOSE r \in DOMAIN found : TRUE     \* fetchone()
             IN  Ok(<<result.content, result.type>>)

\* As PersistentResource_list, selecting the content column whatever
\* include_content is.
PersistentResource_list_all(rows, context, include_content) ==
    LET entry(r) == [key |-> r.key, mime_type |-> r.type,
                     content |-> r.content]
        hits == {r \in DOMAIN rows : SqlEq(r.context, context)}
    IN  Ok(Update(Where(rows, hits), hits, [r \in hits |-> entry(r)]))

\* The entries listed, as a bag: fetchall() gives them in no stated order.
PersistentResource_list(rows, context, include_content) ==
    LET entry(r) == IF include_content
                    THEN [key |-> r.key, mime_type |-> r.type,
                          content |-> r.content]
                    ELSE [key |-> r.key, mime_type |-> r.type]
        hits == {r \in DOMAIN rows : SqlEq(r.context, context)}
    IN  Ok(Update(Where(rows, hits), hits, [r \in hits |-> entry(r)]))

\* As PersistentResource_remove, with a DELETE that selects by the key alone.
PersistentResource_remove_any_context(rows, context, key) ==
    LET hit(r) == SqlEq(r.key, key)
        hits == {r \in DOMAIN rows : hit(r)}
        affected == RowCount(rows, hits)
    IN  [rows |-> WhereNot(rows, hits),
         result |-> IF affected > 0 THEN Ok(<<"removed">>) ELSE Err("NotFound")]

PersistentResource_remove(rows, context, key) ==
    LET hit(r) == SqlEq(r.context, context) /\ SqlEq(r.key, key)
        hits == {r \in DOMAIN rows : hit(r)}
        affected == RowCount(rows, hits)
    IN  [rows |-> WhereNot(rows, hits),
         result |-> IF affected > 0 THEN Ok(<<"removed">>) ELSE Err("NotFound")]

\* As PersistentResource_set, with an UPDATE that leaves the type column.
PersistentResource_set_keeps_type(rows, context, key, resource, mime_type) ==
    LET hit(r) == SqlEq(r.key, key) /\ SqlIs(r.context, context)
        hits == {r \in DOMAIN rows : hit(r)}
        change(r) == [r EXCEPT !.content = resource]
        row == [type |-> mime_type, context |-> context, key |-> key,
                content |-> resource]
    IN  IF RowCount(rows, hits) # 0
        THEN [rows |-> Update(rows, hits, [r \in hits |-> change(r)]),
              result |-> Ok(<<"updated">>)]
        ELSE IF ~ResourceUnique(rows, row)
        THEN [rows |-> rows, result |-> Err("sqlite3.IntegrityError")]
        ELSE [rows |-> Insert(rows, row), result |-> Ok(<<"added">>)]

\* As PersistentResource_set, with the UPDATE's key and context parameters
\* given in the wrong order.
PersistentResource_set_swapped(rows, context, key, resource, mime_type) ==
    LET hit(r) == SqlEq(r.key, context) /\ SqlIs(r.context, key)
        hits == {r \in DOMAIN rows : hit(r)}
        change(r) == [r EXCEPT !.type = mime_type, !.content = resource]
        row == [type |-> mime_type, context |-> context, key |-> key,
                content |-> resource]
    IN  IF RowCount(rows, hits) # 0
        THEN [rows |-> Update(rows, hits, [r \in hits |-> change(r)]),
              result |-> Ok(<<"updated">>)]
        ELSE IF ~ResourceUnique(rows, row)
        THEN [rows |-> rows, result |-> Err("sqlite3.IntegrityError")]
        ELSE [rows |-> Insert(rows, row), result |-> Ok(<<"added">>)]

\* As PersistentResource_set, by one INSERT OR REPLACE in the place of the
\* UPDATE and the INSERT, which cannot tell an update from an insert.
PersistentResource_set_replace(rows, context, key, resource, mime_type) ==
    LET hit(r) == SqlEq(r.key, key) /\ SqlEq(r.context, context)
        hits == {r \in DOMAIN rows : hit(r)}
        row == [type |-> mime_type, context |-> context, key |-> key,
                content |-> resource]
    IN  [rows |-> Insert(WhereNot(rows, hits), row),
         result |-> Ok(<<"added">>)]

PersistentResource_set(rows, context, key, resource, mime_type) ==
    LET hit(r) == SqlEq(r.key, key) /\ SqlIs(r.context, context)
        hits == {r \in DOMAIN rows : hit(r)}
        change(r) == [r EXCEPT !.type = mime_type, !.content = resource]
        row == [type |-> mime_type, context |-> context, key |-> key,
                content |-> resource]
    IN  IF RowCount(rows, hits) # 0
        THEN [rows |-> Update(rows, hits, [r \in hits |-> change(r)]),
              result |-> Ok(<<"updated">>)]
        ELSE IF ~ResourceUnique(rows, row)
        THEN [rows |-> rows, result |-> Err("sqlite3.IntegrityError")]
        ELSE [rows |-> Insert(rows, row), result |-> Ok(<<"added">>)]

(***************************************************************************)
(* Rule, the class behind "rule": its own table and its own get, list,     *)
(* remove and set.                                                         *)
(***************************************************************************)
\* UNIQUE(context, rule): NULLs are distinct from each other in a UNIQUE index.
RuleUnique(rows, row) ==
    \A r \in DOMAIN rows :
        ~(SqlEq(r.context, row.context) /\ SqlEq(r.rule, row.rule))

\* CHECK(policy IN ('MUST', 'MUST NOT', 'SHOULD', 'SHOULD NOT', 'MAY'))
RuleCheck(row) ==
    row.policy \in {"MUST", "MUST NOT", "SHOULD", "SHOULD NOT", "MAY"}

Rule_get(rows, context, key) == Err("NotImplementedError")

Rule_list(rows, context) ==
    LET hits == {r \in DOMAIN rows : SqlEq(r.context, context)}
    IN  Ok(Update(Where(rows, hits), hits,
                  [r \in hits |-> [policy |-> r.policy, rule |-> r.rule]]))

\* As Rule_remove, testing "not context" where the code tests
\* "context is None": the empty string is taken for the default context.
Rule_remove_falsy(rows, context, rule) ==
    LET hit(r) == IF context = None \/ context = ""
                  THEN SqlEq(r.rule, rule) /\ r.context = None
                  ELSE SqlEq(r.rule, rule) /\ SqlEq(r.context, context)
        hits == {r \in DOMAIN rows : hit(r)}
    IN  IF Where(rows, hits) = EmptyBag
        THEN [rows |-> rows, result |-> Err("NotFound")]
        ELSE IF RowCount(rows, hits) = 0
        THEN [rows |-> rows, result |-> Err("NotFound")]
        ELSE [rows |-> WhereNot(rows, hits), result |-> Ok(<<"removed">>)]

Rule_remove(rows, context, rule) ==
    LET hit(r) == IF context = None
                  THEN SqlEq(r.rule, rule) /\ r.context = None
                  ELSE SqlEq(r.rule, rule) /\ SqlEq(r.context, context)
        hits == {r \in DOMAIN rows : hit(r)}
    IN  IF Where(rows, hits) = EmptyBag
        THEN [rows |-> rows, result |-> Err("NotFound")]
        ELSE IF RowCount(rows, hits) = 0
        THEN [rows |-> rows, result |-> Err("NotFound")]
        ELSE [rows |-> WhereNot(rows, hits), result |-> Ok(<<"removed">>)]

\* As Rule_set, looking the rule up with "context = ?" instead of
\* "context IS ?".
Rule_set_eq(rows, context, policy, rule) ==
    LET hit(r) == SqlEq(r.rule, rule) /\ SqlEq(r.context, context)
        hits == {r \in DOMAIN rows : hit(r)}
        found == Where(rows, hits)
        existing_policy == (CHOOSE r \in DOMAIN found : TRUE).policy
        change(r) == [r EXCEPT !.policy = policy]
        row == [context |-> context, policy |-> policy, rule |-> rule]
    IN  IF policy \notin ALLOWED_RULE_POLICIES
        THEN [rows |-> rows, result |-> Err("NotValid")]
        ELSE IF found # EmptyBag
        THEN IF existing_policy = policy
             THEN [rows |-> rows, result |-> Err("AlreadyExists")]
             ELSE IF ~RuleCheck(row)
             THEN [rows |-> rows, result |-> Err("sqlite3.IntegrityError")]
             ELSE [rows |-> Update(rows, hits, [r \in hits |-> change(r)]),
                   result |-> Ok(<<"Policy updated", existing_policy, policy>>)]
        ELSE IF ~RuleCheck(row) \/ ~RuleUnique(rows, row)
        THEN [rows |-> rows, result |-> Err("sqlite3.IntegrityError")]
        ELSE [rows |-> Insert(rows, row), result |-> Ok(<<"New rule added">>)]

\* As Rule_set, without the check of the policy against
\* ALLOWED_RULE_POLICIES.
Rule_set_unchecked(rows, context, policy, rule) ==
    LET hit(r) == SqlEq(r.rule, rule) /\ SqlIs(r.context, context)
        hits == {r \in DOMAIN rows : hit(r)}
        found == Where(rows, hits)
        existing_policy == (CHOOSE r \in DOMAIN found : TRUE).policy
        change(r) == [r EXCEPT !.policy = policy]
        row == [context |-> context, policy |-> policy, rule |-> rule]
    IN  IF found # EmptyBag
        THEN IF existing_policy = policy
             THEN [rows |-> rows, result |-> Err("AlreadyExists")]
             ELSE IF ~RuleCheck(row)
             THEN [rows |-> rows, result |-> Err("sqlite3.IntegrityError")]
             ELSE [rows |-> Update(rows, hits, [r \in hits |-> change(r)]),
                   result |-> Ok(<<"Policy updated", existing_policy, policy>>)]
        ELSE IF ~RuleCheck(row) \/ ~RuleUnique(rows, row)
        THEN [rows |-> rows, result |-> Err("sqlite3.IntegrityError")]
        ELSE [rows |-> Insert(rows, row), result |-> Ok(<<"New rule added">>)]

Rule_set(rows, context, policy, rule) ==
    LET hit(r) == SqlEq(r.rule, rule) /\ SqlIs(r.context, context)
        hits == {r \in DOMAIN rows : hit(r)}
        found == Where(rows, hits)
        existing_policy == (CHOOSE r \in DOMAIN found : TRUE).policy
        change(r) == [r EXCEPT !.policy = policy]
        row == [context |-> context, policy |-> policy, rule |-> rule]
    IN  IF policy \notin ALLOWED_RULE_POLICIES
        THEN [rows |-> rows, result |-> Err("NotValid")]
        ELSE IF found # EmptyBag
        THEN IF existing_policy = policy
             THEN [rows |-> rows, result |-> Err("AlreadyExists")]
             ELSE IF ~RuleCheck(row)
             THEN [rows |-> rows, result |-> Err("sqlite3.IntegrityError")]
             ELSE [rows |-> Update(rows, hits, [r \in hits |-> change(r)]),
                   result |-> Ok(<<"Policy updated", existing_policy, policy>>)]
        ELSE IF ~RuleCheck(row) \/ ~RuleUnique(rows, row)
        THEN [rows |-> rows, result |-> Err("sqlite3.IntegrityError")]
        ELSE [rows |-> Insert(rows, row), result |-> Ok(<<"New rule added">>)]

(***************************************************************************)
(* Backup.  A backup name is a sequence of characters; NoName is the None  *)
(* of a create without a name.  dir is the backup directory, store and     *)
(* store_exists the target file.                                           *)
(***************************************************************************)
NoName == <<None>>

Digits == <<"0", "1", "2", "3", "4", "5", "6", "7", "8", "9">>

\* str(n) of a natural number, as an f-string renders time.time_ns().
RECURSIVE str(_)
str(n) == IF n < 10 THEN <<Digits[n + 1]>>
          ELSE str(n \div 10) \o <<Digits[(n % 10) + 1]>>

\* self.path / f"{name}.{self.target_path.name}"
backup_path(name, target_name) == name \o <<".">> \o target_name

\* "name or time.time_ns()": the clock is read when name is None or "".
Falsy(name) == name = NoName \/ name = <<>>

\* As Backup_clear, without the test for an empty directory.
Backup_clear_silent(dir) ==
    [dir |-> <<>>, result |-> Ok(<<>>)]

Backup_clear(dir) ==
    IF DOMAIN dir = {}
    THEN [dir |-> dir, result |-> Err("NotFound")]
    ELSE [dir |-> <<>>, result |-> Ok(<<>>)]

\* As Backup_create, without the test that the backup file exists.
Backup_create_overwrites(dir, store, store_exists, target_name, now, name) ==
    LET chosen == IF Falsy(name) THEN str(now) ELSE name
        path == backup_path(chosen, target_name)
    IN  IF ~store_exists
        THEN [dir |-> dir, store |-> store, store_exists |-> store_exists,
              result |-> Err("FileNotFoundError")]
        ELSE [dir |-> (path :> store) @@ dir, store |-> store,
              store_exists |-> store_exists, result |-> Ok(chosen)]

\* As Backup_create, with shutil.move in the place of shutil.copy: the
\* target file is gone once its backup is made.
Backup_create_moves(dir, store, store_exists, target_name, now, name) ==
    LET chosen == IF Falsy(name) THEN str(now) ELSE name
        path == backup_path(chosen, target_name)
    IN  IF path \in DOMAIN dir
        THEN [dir |-> dir, store |-> store, store_exists |-> store_exists,
              result |-> Err("AlreadyExists")]
        ELSE IF ~store_exists
        THEN [dir |-> dir, store |-> store, store_exists |-> store_exists,
              result |-> Err("FileNotFoundError")]
        ELSE [dir |-> (path :> store) @@ dir, store |-> EmptyStore,
              store_exists |-> FALSE, result |-> Ok(chosen)]

\* The returned name is given as it is rendered in the file's name.
Backup_create(dir, store, store_exists, target_name, now, name) ==
    LET chosen == IF Falsy(name) THEN str(now) ELSE name
        path == backup_path(chosen, target_name)
    IN  IF path \in DOMAIN dir
        THEN [dir |-> dir, store |-> store, store_exists |-> store_exists,
              result |-> Err("AlreadyExists")]
        ELSE IF ~store_exists
        THEN [dir |-> dir, store |-> store, store_exists |-> store_exists,
              result |-> Err("FileNotFoundError")]
        ELSE [dir |-> (path :> store) @@ dir, store |-> store,
              store_exists |-> store_exists, result |-> Ok(chosen)]

\* f.name[:-6] of every file, by file: iterdir() gives them in no stated order.
Backup_list(dir) ==
    Ok([f \in DOMAIN dir |-> SubSeq(f, 1, Len(f) - 6)])

Backup_remove(dir, target_name, name) ==
    LET path == backup_path(name, target_name)
    IN  IF path \notin DOMAIN dir
        THEN [dir |-> dir, result |-> Err("NotFound")]
        ELSE [dir |-> [f \in DOMAIN dir \ {path} |-> dir[f]],
              result |-> Ok(<<>>)]

\* As Backup_restore, copying the target over the backup.
Backup_restore_reversed(dir, store, store_exists, target_name, name) ==
    LET path == backup_path(name, target_name)
    IN  IF path \notin DOMAIN dir
        THEN [dir |-> dir, store |-> store, store_exists |-> store_exists,
              result |-> Err("NotFound")]
        ELSE [dir |-> [dir EXCEPT ![path] = store], store |-> store,
              store_exists |-> store_exists, result |-> Ok(<<>>)]

Backup_restore(dir, store, store_exists, target_name, name) ==
    LET path == backup_path(name, target_name)
    IN  IF path \notin DOMAIN dir
        THEN [dir |-> dir, store |-> store, store_exists |-> store_exists,
              result |-> Err("NotFound")]
        ELSE [dir |-> dir, store |-> dir[path], store_exists |-> TRUE,
              result |-> Ok(<<>>)]

(***************************************************************************)
(* MyContext, the registry of the three handlers.  db and resources are    *)
(* cached properties: the first access of db connects to the store file,   *)
(* which makes the file and the tables that are not there, and the first   *)
(* lookup of a handler builds all three over db.                           *)
(***************************************************************************)
\* As create_db, with CREATE TABLE in the place of CREATE TABLE IF NOT
\* EXISTS, over tables that are dropped first.
create_db_fresh(store_exists, store) == EmptyStore

\* The store file after create_db: CREATE TABLE IF NOT EXISTS for the table
\* of every resource type.
create_db(store_exists, store) ==
    [t \in TableNames |-> IF store_exists /\ t \in DOMAIN store
                          THEN store[t]
                          ELSE EmptyBag]

\* The store file once self.db has been read.
OpenedStore == IF db = "unopened" THEN create_db(exists, tables) ELSE tables

\* self.db
MyContext_db ==
    /\ exists' = TRUE
    /\ db' = IF db = "unopened" THEN "open" ELSE db
    /\ opened' = IF db = "unopened" THEN opened + 1 ELSE opened

\* self.resources: every handler is made over self.db.
MyContext_resources ==
    /\ MyContext_db
    /\ resources' = IF resources = <<>>
                    THEN [name \in resource_types |-> opened']
                    ELSE resources

\* self.db.cursor() of a handler, on a connection that close() has closed.
ProgrammingError == Err("sqlite3.ProgrammingError")

Init ==
    /\ exists = FALSE
    /\ db = "unopened"
    /\ opened = 0
    /\ resources = <<>>
    /\ tables = EmptyStore
    /\ backups = <<>>
    /\ clock = 0
    /\ target = <<"m", "y", ".", "d", "b">>
    /\ created = <<>>
    /\ requests = {}
    /\ last = Call("none", "none", <<>>, Ok(<<>>))

(***************************************************************************)
(* The calls on the registry itself: my[name], close(), and a new process  *)
(* that makes its registry over the same store file.                       *)
(***************************************************************************)
GetItem(name) ==
    /\ MyContext_resources
    /\ tables' = OpenedStore
    /\ last' = Call("getitem", name, <<>>,
                    IF name \in DOMAIN resources' THEN Ok(<<name>>)
                    ELSE Err("KeyError"))
    /\ UNCHANGED <<backupVars, requests>>

\* self.db.close(): the connection is made first when there is none yet.
Close ==
    /\ exists' = TRUE
    /\ opened' = IF db = "unopened" THEN opened + 1 ELSE opened
    /\ db' = "closed"
    /\ tables' = OpenedStore
    /\ last' = Call("close", "registry", <<>>, Ok(<<>>))
    /\ UNCHANGED <<resources, backupVars, requests>>

Restart ==
    /\ opened < MaxOpens
    /\ db' = "unopened"
    /\ resources' = <<>>
    /\ last' = Call("restart", "registry", <<>>, Ok(<<>>))
    /\ UNCHANGED <<exists, opened, tables, backupVars, requests>>

(***************************************************************************)
(* The calls on a snippet or summary resource, my[res].get(...) and so on. *)
(***************************************************************************)
Get(res, context, key) ==
    /\ res \in {"snippet", "summary"}
    /\ MyContext_resources
    /\ tables' = OpenedStore
    /\ last' = Call("get", res, [context |-> context, key |-> key],
                    IF db = "closed" THEN ProgrammingError
                    ELSE PersistentResource_get(tables'[resource_table(res)],
                                                context, key))
    /\ UNCHANGED <<backupVars, requests>>

List(res, context, include_content) ==
    /\ res \in {"snippet", "summary"}
    /\ MyContext_resources
    /\ tables' = OpenedStore
    /\ last' = Call("list", res,
                    [context |-> context, include_content |-> include_content],
                    IF db = "closed" THEN ProgrammingError
                    ELSE PersistentResource_list(tables'[resource_table(res)],
                                                 context, include_content))
    /\ UNCHANGED <<backupVars, requests>>

Remove(res, context, key) ==
    /\ res \in {"snippet", "summary"}
    /\ MyContext_resources
    /\ LET store == OpenedStore
           r == PersistentResource_remove(store[resource_table(res)],
                                          context, key)
       IN  /\ tables' = IF db = "closed" THEN tables
                        ELSE [store EXCEPT ![resource_table(res)] = r.rows]
           /\ last' = Call("remove", res, [context |-> context, key |-> key],
                           IF db = "closed" THEN ProgrammingError
                           ELSE r.result)
    /\ UNCHANGED <<backupVars, requests>>

Set(res, context, key, resource, mime_type) ==
    /\ res \in {"snippet", "summary"}
    /\ MyContext_resources
    /\ LET store == OpenedStore
           r == PersistentResource_set(store[resource_table(res)],
                                       context, key, resource, mime_type)
       IN  /\ tables' = IF db = "closed" THEN tables
                        ELSE [store EXCEPT ![resource_table(res)] = r.rows]
           /\ StoreSize(tables') <= MaxRows
           /\ last' = Call("set", res,
                           [context |-> context, key |-> key,
                            resource |-> resource, mime_type |-> mime_type],
                           IF db = "closed" THEN ProgrammingError
                           ELSE r.result)
    /\ UNCHANGED <<backupVars, requests>>

(***************************************************************************)
(* The calls on the rule resource.  get raises before it reads db, and set *)
(* checks the policy before it does.                                       *)
(***************************************************************************)
RuleGet(context, key) ==
    /\ MyContext_resources
    /\ tables' = OpenedStore
    /\ last' = Call("get", "rule", [context |-> context, key |-> key],
                    Rule_get(tables'["rules"], context, key))
    /\ UNCHANGED <<backupVars, requests>>

RuleList(context) ==
    /\ MyContext_resources
    /\ tables' = OpenedStore
    /\ last' = Call("list", "rule", [context |-> context],
                    IF db = "closed" THEN ProgrammingError
                    ELSE Rule_list(tables'["rules"], context))
    /\ UNCHANGED <<backupVars, requests>>

RuleRemove(context, rule) ==
    /\ MyContext_resources
    /\ LET store == OpenedStore
           r == Rule_remove(store["rules"], context, rule)
       IN  /\ tables' = IF db = "closed" THEN tables
                        ELSE [store EXCEPT !["rules"] = r.rows]
           /\ last' = Call("remove", "rule",
                           [context |-> context, rule |-> rule],
                           IF db = "closed" THEN ProgrammingError
                           ELSE r.result)
    /\ UNCHANGED <<backupVars, requests>>

RuleSet(context, policy, rule) ==
    /\ MyContext_resources
    /\ LET store == OpenedStore
           r == Rule_set(store["rules"], context, policy, rule)
           refused == db = "closed" /\ policy \in ALLOWED_RULE_POLICIES
       IN  /\ tables' = IF refused THEN tables
                        ELSE [store EXCEPT !["rules"] = r.rows]
           /\ StoreSize(tables') <= MaxRows
           /\ last' = Call("set", "rule",
                           [context |-> context, policy |-> policy,
                            rule |-> rule],
                           IF refused THEN ProgrammingError ELSE r.result)
    /\ UNCHANGED <<backupVars, requests>>

(***************************************************************************)
(* The resource handlers and the rule removal tool of the server.  A       *)
(* resource is read as my://{context}/{resource}, with ":all" after the    *)
(* resource for a list with contents.                                      *)
(***************************************************************************)
my_context_list_resource(context, resource, all) ==
    LET args == [context |-> context, resource |-> resource, all |-> all]
    IN  IF resource \notin resource_types
        THEN /\ last' = Call("my_context_list_resource", "server", args,
                             Err("NotValid"))
             /\ UNCHANGED <<exists, db, opened, resources, tables,
                            backupVars, requests>>
        ELSE /\ MyContext_resources
             /\ tables' = OpenedStore
             /\ last' = Call("my_context_list_resource", "server", args,
                             IF db = "closed" THEN ProgrammingError
                             ELSE IF resource = "rule"
                             THEN Rule_list(tables'["rules"], context)
                             ELSE PersistentResource_list(
                                      tables'[resource_table(resource)],
                                      context, all))
             /\ UNCHANGED <<backupVars, requests>>

my_context_get_resource(context, resource, key) ==
    LET args == [context |-> context, resource |-> resource, key |-> key]
    IN  IF resource \notin resource_types
        THEN /\ last' = Call("my_context_get_resource", "server", args,
                             Err("NotValid"))
             /\ UNCHANGED <<exists, db, opened, resources, tables,
                            backupVars, requests>>
        ELSE /\ MyContext_resources
             /\ tables' = OpenedStore
             /\ last' = Call("my_context_get_resource", "server", args,
                             IF resource = "rule"
                             THEN Rule_get(tables'["rules"], context, key)
                             ELSE IF db = "closed" THEN ProgrammingError
                             ELSE PersistentResource_get(
                                      tables'[resource_table(resource)],
                                      context, key))
             /\ UNCHANGED <<backupVars, requests>>

\* def remove(self, context, rule)
Rule_remove_parameters == <<"context", "rule">>

\* context or "me"
OrMe(context) == IF context = None \/ context = "" THEN "me" ELSE context

\* my["rule"].remove(context or "me", rule, policy): a call with another
\* number of arguments than the method has parameters raises TypeError,
\* which the tool does not catch.  The rule texts asked hold no ": ", so
\* the tool does not split them.
my_context_rule_remove(rule, context, policy) ==
    /\ MyContext_resources
    /\ LET store == OpenedStore
           passed == <<OrMe(context), rule, policy>>
           fits == Len(passed) = Len(Rule_remove_parameters)
           r == Rule_remove(store["rules"], passed[1], passed[2])
           done == fits /\ db # "closed"
       IN  /\ tables' = IF done THEN [store EXCEPT !["rules"] = r.rows]
                        ELSE store
           /\ last' = Call("my_context_rule_remove", "server",
                           [rule |-> rule, context |-> context,
                            policy |-> policy],
                           IF ~fits THEN Err("TypeError")
                           ELSE IF db = "closed" THEN ProgrammingError
                           ELSE r.result)
    /\ UNCHANGED <<backupVars, requests>>

(***************************************************************************)
(* The calls on the Backup, and the restore tool of the server.  A create  *)
(* without a name reads the clock, which has moved on since the last read. *)
(***************************************************************************)
\* created after a call that turned the directory into dir: names whose
\* backup is gone are forgotten, the name a create returned is recorded.
Remember(dir, made, store) ==
    LET kept == {n \in DOMAIN created : backup_path(n, target) \in DOMAIN dir}
    IN  [n \in kept \cup made |-> IF n \in made THEN store ELSE created[n]]

BackupClear ==
    /\ LET r == Backup_clear(backups)
       IN  /\ backups' = r.dir
           /\ created' = Remember(r.dir, {}, tables)
           /\ last' = Call("clear", "backup", <<>>, r.result)
    /\ UNCHANGED <<exists, db, opened, resources, tables, clock, target,
                   requests>>

BackupCreate(name) ==
    /\ Falsy(name) => clock < MaxClock
    /\ clock' = IF Falsy(name) THEN clock + 1 ELSE clock
    /\ LET r == Backup_create(backups, tables, exists, target, clock', name)
       IN  /\ backups' = r.dir
           /\ created' = Remember(r.dir, IF r.result.ok THEN {r.result.out}
                                         ELSE {}, tables)
           /\ tables' = r.store
           /\ exists' = r.store_exists
           /\ last' = Call("create", "backup", [name |-> name], r.result)
    /\ UNCHANGED <<db, opened, resources, target, requests>>

BackupList ==
    /\ last' = Call("list", "backup", <<>>, Backup_list(backups))
    /\ UNCHANGED <<exists, db, opened, resources, tables,
                   backupVars, requests>>

BackupRemove(name) ==
    /\ LET r == Backup_remove(backups, target, name)
       IN  /\ backups' = r.dir
           /\ created' = Remember(r.dir, {}, tables)
           /\ last' = Call("remove", "backup", [name |-> name], r.result)
    /\ UNCHANGED <<exists, db, opened, resources, tables, clock, target,
                   requests>>

BackupRestore(name) ==
    /\ LET r == Backup_restore(backups, tables, exists, target, name)
       IN  /\ tables' = r.store
           /\ exists' = r.store_exists
           /\ backups' = r.dir
           /\ created' = Remember(r.dir, {}, tables)
           /\ last' = Call("restore", "backup", [name |-> name], r.result)
    /\ UNCHANGED <<db, opened, resources, clock, target, requests>>

\* my_context_backup_restore: with backup_current, create() and then
\* restore(name), with no await between them; a BackupError of either ends
\* the tool with a failure, any other exception leaves it.
my_context_backup_restore(name, backup_current) ==
    /\ backup_current => clock < MaxClock
    /\ clock' = IF backup_current THEN clock + 1 ELSE clock
    /\ LET c == IF backup_current
                THEN Backup_create(backups, tables, exists, target, clock',
                                   NoName)
                ELSE [dir |-> backups, store |-> tables,
                      store_exists |-> exists, result |-> Ok(<<>>)]
           r == Backup_restore(c.dir, c.store, c.store_exists, target, name)
           made == IF backup_current /\ c.result.ok THEN {c.result.out}
                   ELSE {}
       IN  /\ backups' = IF c.result.ok THEN r.dir ELSE c.dir
           /\ created' = Remember(backups', made, tables)
           /\ tables' = IF c.result.ok THEN r.store ELSE c.store
           /\ exists' = IF c.result.ok THEN r.store_exists ELSE c.store_exists
           /\ last' = Call("my_context_backup_restore", "backup",
                           [name |-> name, backup_current |-> backup_current],
                           IF ~c.result.ok THEN c.result
                           ELSE IF ~r.result.ok THEN r.result
                           ELSE Ok(IF backup_current
                                   THEN <<"Backup created", c.result.out,
                                          "Backup restored", name>>
                                   ELSE <<"Backup restored", name>>))
    /\ UNCHANGED <<db, opened, resources, target, requests>>

(***************************************************************************)
(* The snippet and summary resources on their own.                         *)
(***************************************************************************)
ResourceContexts == {"me", "work"}
ResourceKeys == {"k", "k2"}
ResourceContents == {"v", "v2"}
MimeTypes == {"text/plain", "text/markdown"}

NextResource ==
    \/ \E res \in {"snippet", "summary"}, context \in ResourceContexts,
          key \in ResourceKeys :
          Get(res, context, key)
    \/ \E res \in {"snippet", "summary"}, context \in ResourceContexts,
          include_content \in BOOLEAN :
          List(res, context, include_content)
    \/ \E res \in {"snippet", "summary"}, context \in ResourceContexts,
          key \in ResourceKeys :
          Remove(res, context, key)
    \/ \E res \in {"snippet", "summary"}, context \in ResourceContexts,
          key \in ResourceKeys, resource \in ResourceContents,
          mime_type \in MimeTypes :
          Set(res, context, key, resource, mime_type)

SpecResource == Init /\ [][NextResource]_vars

(***************************************************************************)
(* The rule resource on its own: the default (absent) context, the empty   *)
(* string and a named context; a policy outside the allowed five.          *)
(***************************************************************************)
RuleContexts == {None, "", "me"}
RuleTexts == {"do X", "do Y"}
PolicyInputs == {"MUST", "SHOULD", "MAYBE"}

NextRule ==
    \/ \E context \in RuleContexts, key \in RuleTexts :
          RuleGet(context, key)
    \/ \E context \in RuleContexts :
          RuleList(context)
    \/ \E context \in RuleContexts, rule \in RuleTexts :
          RuleRemove(context, rule)
    \/ \E context \in RuleContexts, policy \in PolicyInputs,
          rule \in RuleTexts :
          RuleSet(context, policy, rule)

SpecRule == Init /\ [][NextRule]_vars

(***************************************************************************)
(* The three resources together, without backups.                          *)
(***************************************************************************)
StoreContexts == {"me", "work"}
StoreKeys == {"k"}
StoreRuleContexts == {None, "", "me"}
StoreRuleTexts == {"do X"}
StorePolicies == {"MUST", "SHOULD"}

NextStore ==
    \/ \E res \in {"snippet", "summary"}, context \in StoreContexts,
          key \in StoreKeys :
          Remove(res, context, key)
    \/ \E res \in {"snippet", "summary"}, context \in StoreContexts,
          key \in StoreKeys :
          Set(res, context, key, "v", "text/plain")
    \/ \E context \in StoreRuleContexts, rule \in StoreRuleTexts :
          RuleRemove(context, rule)
    \/ \E context \in StoreRuleContexts, policy \in StorePolicies,
          rule \in StoreRuleTexts :
          RuleSet(context, policy, rule)

SpecStore == Init /\ [][NextStore]_vars

(***************************************************************************)
(* The whole program: the mutating calls of the three resources on one     *)
(* place each, the backups and the restore tool.                           *)
(***************************************************************************)
BackupNames == {<<"a">>}

\* What a caller may name: a name it chose, or one a create has returned.
NamesAsked == BackupNames \cup {str(n) : n \in 1..clock}

Next ==
    \/ \E res \in {"snippet", "summary"} :
          Set(res, "me", "k", "v", "text/plain")
    \/ \E res \in {"snippet", "summary"} : Remove(res, "me", "k")
    \/ RuleSet(None, "MUST", "do X")
    \/ RuleRemove(None, "do X")
    \/ BackupClear
    \/ \E name \in BackupNames \cup {NoName} : BackupCreate(name)
    \/ BackupList
    \/ \E name \in NamesAsked : BackupRemove(name)
    \/ \E name \in NamesAsked : BackupRestore(name)
    \/ \E name \in NamesAsked, backup_current \in BOOLEAN :
          my_context_backup_restore(name, backup_current)

Spec == Init /\ [][Next]_vars

(***************************************************************************)
(* A Backup on its own, made for one of several target files: the calls    *)
(* that make, list and delete backups, and a set that makes the target.    *)
(***************************************************************************)
TargetNames == {<<"m", "y", ".", "d", "b">>,
                <<"m", "y", ".", "s", "q", "l", "i", "t", "e">>}
BackupDirNames == {<<"a">>, <<"b">>}

InitBackup ==
    /\ exists = FALSE
    /\ db = "unopened"
    /\ opened = 0
    /\ resources = <<>>
    /\ tables = EmptyStore
    /\ backups = <<>>
    /\ clock = 0
    /\ target \in TargetNames
    /\ created = <<>>
    /\ requests = {}
    /\ last = Call("none", "none", <<>>, Ok(<<>>))

NextBackup ==
    \/ Set("snippet", "me", "k", "v", "text/plain")
    \/ BackupClear
    \/ \E name \in BackupDirNames \cup {NoName} : BackupCreate(name)
    \/ BackupList
    \/ \E name \in BackupDirNames \cup {str(n) : n \in 1..clock} :
          BackupRemove(name)

SpecBackup == InitBackup /\ [][NextBackup]_vars

(***************************************************************************)
(* One registry from its construction to its close: lookups of handlers    *)
(* by name, a name of no resource type among them, the resource handlers   *)
(* and the rule removal tool of the server, sets, and close.               *)
(***************************************************************************)
RegistryNames == resource_types \cup {"nope"}
RegistryRuleContexts == {None, "", "me"}
RegistryPolicies == {"MUST", "SHOULD"}

NextRegistry ==
    \/ \E name \in RegistryNames : GetItem(name)
    \/ \E resource \in RegistryNames, all \in BOOLEAN :
          my_context_list_resource("me", resource, all)
    \/ \E resource \in RegistryNames :
          my_context_get_resource("me", resource, "k")
    \/ \E res \in {"snippet", "summary"} :
          Set(res, "me", "k", "v", "text/plain")
    \/ \E context \in RegistryRuleContexts, policy \in RegistryPolicies :
          RuleSet(context, policy, "do X")
    \/ \E context \in RegistryRuleContexts,
          policy \in RegistryPolicies \cup {None} :
          my_context_rule_remove("do X", context, policy)
    \/ Close

SpecRegistry == Init /\ [][NextRegistry]_vars

(***************************************************************************)
(* A store file over the lives of several registries: sets and removes,    *)
(* lookups, close, and the start of a new process over the same file.      *)
(***************************************************************************)
NextReopen ==
    \/ \E res \in {"snippet", "summary"} :
          Set(res, "me", "k", "v", "text/plain")
    \/ \E res \in {"snippet", "summary"} : Remove(res, "me", "k")
    \/ \E context \in {None, "me"} : RuleSet(context, "MUST", "do X")
    \/ \E name \in resource_types : GetItem(name)
    \/ Close
    \/ Restart

SpecReopen == Init /\ [][NextReopen]_vars

(***************************************************************************)
(* Concurrent requests.  The tools are coroutines on one event loop: a     *)
(* request that has started runs until its body awaits, and between two    *)
(* awaits nothing else runs.  The body of a tool is the sequence of its     *)
(* segments, a segment being the calls on the store and the backups that   *)
(* no await separates.  A request is the tool asked and the number of      *)
(* segments that have run.                                                 *)
(***************************************************************************)
\* What the requests ask for: one place of each resource, one backup name.
AskedContext == "me"
AskedKey == "k"
AskedContent == "v"
AskedMimeType == "text/plain"
AskedPolicy == "MUST"
AskedRule == "do X"
AskedName == <<"a">>

MutatingTools ==
    {"my_context_snippet_set", "my_context_snippet_remove",
     "my_context_summary_set", "my_context_summary_remove",
     "my_context_rule_set", "my_context_rule_remove",
     "my_context_backup_create", "my_context_backup_remove",
     "my_context_backup_clear", "my_context_backup_restore"}

\* backup_current is an argument of the restore tool alone.
Asked ==
    {[tool |-> tool, backup_current |-> TRUE] : tool \in MutatingTools}
        \cup {[tool |-> "my_context_backup_restore", backup_current |-> FALSE]}

\* As Body, with an await between the create and the restore of the restore
\* tool.
Body_awaiting(tool, backup_current) ==
    IF tool = "my_context_snippet_set" THEN << <<"snippet.set">> >>
    ELSE IF tool = "my_context_snippet_remove" THEN << <<"snippet.remove">> >>
    ELSE IF tool = "my_context_summary_set" THEN << <<"summary.set">> >>
    ELSE IF tool = "my_context_summary_remove" THEN << <<"summary.remove">> >>
    ELSE IF tool = "my_context_rule_set" THEN << <<"rule.set">> >>
    ELSE IF tool = "my_context_rule_remove" THEN << <<"rule.remove">> >>
    ELSE IF tool = "my_context_backup_create" THEN << <<"backup.create">> >>
    ELSE IF tool = "my_context_backup_remove" THEN << <<"backup.remove">> >>
    ELSE IF tool = "my_context_backup_clear" THEN << <<"backup.clear">> >>
    ELSE IF backup_current
    THEN << <<"backup.create()">>, <<"backup.restore">> >>
    ELSE << <<"backup.restore">> >>

\* No mutating tool awaits: the body of each is one segment.
Body(tool, backup_current) ==
    IF tool = "my_context_snippet_set" THEN << <<"snippet.set">> >>
    ELSE IF tool = "my_context_snippet_remove" THEN << <<"snippet.remove">> >>
    ELSE IF tool = "my_context_summary_set" THEN << <<"summary.set">> >>
    ELSE IF tool = "my_context_summary_remove" THEN << <<"summary.remove">> >>
    ELSE IF tool = "my_context_rule_set" THEN << <<"rule.set">> >>
    ELSE IF tool = "my_context_rule_remove" THEN << <<"rule.remove">> >>
    ELSE IF tool = "my_context_backup_create" THEN << <<"backup.create">> >>
    ELSE IF tool = "my_context_backup_remove" THEN << <<"backup.remove">> >>
    ELSE IF tool = "my_context_backup_clear" THEN << <<"backup.clear">> >>
    ELSE IF backup_current
    THEN << <<"backup.create()", "backup.restore">> >>
    ELSE << <<"backup.restore">> >>

\* The store file, the registry, the backups and the clock, as one value.
Durable ==
    [exists |-> exists, db |-> db, opened |-> opened,
     resources |-> resources, tables |-> tables, backups |-> backups,
     clock |-> clock]

\* my[...]: st once the registry has looked a handler up.
Looked(st) ==
    LET connections == IF st.db = "unopened" THEN st.opened + 1
                       ELSE st.opened
    IN  [st EXCEPT !.exists = TRUE,
                   !.db = IF st.db = "unopened" THEN "open" ELSE st.db,
                   !.opened = connections,
                   !.resources = IF st.resources = <<>>
                                 THEN [name \in resource_types |->
                                          connections]
                                 ELSE st.resources,
                   !.tables = IF st.db = "unopened"
                              THEN create_db(st.exists, st.tables)
                              ELSE st.tables]

\* A call on a handler that gave r: the rows r.rows in table t, unless the
\* connection is closed.
Written(st, t, r) ==
    IF st.db = "closed"
    THEN [st |-> Looked(st), result |-> ProgrammingError, made |-> {}]
    ELSE [st |-> [Looked(st) EXCEPT !.tables[t] = r.rows],
          result |-> r.result, made |-> {}]

\* One call of a tool on the store or on the backups, from st: the state
\* after it, its outcome, and the backup names it made.
CoreCall(st, call, target_name) ==
    LET s == Looked(st)
    IN  IF call = "snippet.set"
        THEN Written(st, "snippet",
                     PersistentResource_set(s.tables["snippet"], AskedContext,
                                            AskedKey, AskedContent,
                                            AskedMimeType))
        ELSE IF call = "snippet.remove"
        THEN Written(st, "snippet",
                     PersistentResource_remove(s.tables["snippet"],
                                               AskedContext, AskedKey))
        ELSE IF call = "summary.set"
        THEN Written(st, "summary",
                     PersistentResource_set(s.tables["summary"], AskedContext,
                                            AskedKey, AskedContent,
                                            AskedMimeType))
        ELSE IF call = "summary.remove"
        THEN Written(st, "summary",
                     PersistentResource_remove(s.tables["summary"],
                                               AskedContext, AskedKey))
        ELSE IF call = "rule.set"
        THEN Written(st, "rules",
                     Rule_set(s.tables["rules"], OrMe(AskedContext),
                              AskedPolicy, AskedRule))
        ELSE IF call = "rule.remove"
        THEN LET passed == <<OrMe(AskedContext), AskedRule, None>>
             IN  IF Len(passed) # Len(Rule_remove_parameters)
                 THEN [st |-> s, result |-> Err("TypeError"), made |-> {}]
                 ELSE Written(st, "rules",
                              Rule_remove(s.tables["rules"], passed[1],
                                          passed[2]))
        ELSE IF call \in {"backup.create", "backup.create()"}
        THEN LET name == IF call = "backup.create" THEN AskedName ELSE NoName
                 now == IF Falsy(name) THEN st.clock + 1 ELSE st.clock
                 r == Backup_create(st.backups, st.tables, st.exists,
                                    target_name, now, name)
             IN  [st |-> [st EXCEPT !.backups = r.dir, !.tables = r.store,
                                    !.exists = r.store_exists,
                                    !.clock = now],
                  result |-> r.result,
                  made |-> IF r.result.ok THEN {r.result.out} ELSE {}]
        ELSE IF call = "backup.remove"
        THEN LET r == Backup_remove(st.backups, target_name, AskedName)
             IN  [st |-> [st EXCEPT !.backups = r.dir], result |-> r.result,
                  made |-> {}]
        ELSE IF call = "backup.clear"
        THEN LET r == Backup_clear(st.backups)
             IN  [st |-> [st EXCEPT !.backups = r.dir], result |-> r.result,
                  made |-> {}]
        ELSE LET r == Backup_restore(st.backups, st.tables, st.exists,
                                     target_name, AskedName)
             IN  [st |-> [st EXCEPT !.backups = r.dir, !.tables = r.store,
                                    !.exists = r.store_exists],
                  result |-> r.result, made |-> {}]

\* The calls of one segment, one after the other with nothing between
\* them: an exception ends the segment, and the request with it.
RECURSIVE Segment(_, _, _)
Segment(st, calls, target_name) ==
    IF calls = <<>>
    THEN [st |-> st, result |-> Ok(<<>>), made |-> {}]
    ELSE LET first == CoreCall(st, Head(calls), target_name)
             rest == Segment(first.st, Tail(calls), target_name)
         IN  IF ~first.result.ok
             THEN first
             ELSE [st |-> rest.st, result |-> rest.result,
                   made |-> first.made \cup rest.made]

\* A request arrives.
Submit(tool, backup_current) ==
    /\ Cardinality(requests) < MaxRequests
    /\ \A q \in requests :
          ~(q.tool = tool /\ q.backup_current = backup_current)
    /\ requests' = requests \cup {[tool |-> tool,
                                   backup_current |-> backup_current,
                                   ran |-> 0]}
    /\ last' = Call("submit", "server",
                    [tool |-> tool, backup_current |-> backup_current],
                    Ok(<<>>))
    /\ UNCHANGED <<exists, db, opened, resources, tables, backupVars>>

\* The event loop resumes a request: its next segment runs to the end.
Resume(q) ==
    /\ q \in requests
    /\ q.ran < Len(Body(q.tool, q.backup_current))
    /\ LET body == Body(q.tool, q.backup_current)
           r == Segment(Durable, body[q.ran + 1], target)
       IN  /\ r.st.clock <= MaxClock
           /\ exists' = r.st.exists
           /\ db' = r.st.db
           /\ opened' = r.st.opened
           /\ resources' = r.st.resources
           /\ tables' = r.st.tables
           /\ backups' = r.st.backups
           /\ clock' = r.st.clock
           /\ created' = Remember(r.st.backups, r.made, tables)
           /\ requests' = (requests \ {q})
                             \cup {[q EXCEPT !.ran = IF r.result.ok
                                                     THEN q.ran + 1
                                                     ELSE Len(body)]}
           /\ last' = Call("resume", "server",
                           [tool |-> q.tool,
                            backup_current |-> q.backup_current],
                           r.result)
    /\ UNCHANGED target

NextConcurrent ==
    \/ \E q \in Asked : Submit(q.tool, q.backup_current)
    \/ \E q \in requests : Resume(q)

SpecConcurrent == Init /\ [][NextConcurrent]_vars

(***************************************************************************)
(* Properties.  In a step, last' is the call the step made and tables the  *)
(* store before it.                                                        *)
(***************************************************************************)
\* The rows of a table stored under (context, key), the default context
\* included.
Stored(rows, context, key) ==
    Where(rows, {r \in DOMAIN rows : r.context = context /\ r.key = key})

StoredRule(rows, context, rule) ==
    Where(rows, {r \in DOMAIN rows : r.context = context /\ r.rule = rule})

IsResourceCall(call, op) ==
    call.op = op /\ call.res \in {"snippet", "summary"}

IsRuleCall(call, op) ==
    call.op = op /\ call.res = "rule"

\* C1: on a snippet or summary resource, after set(ctx, k, v, m) succeeds,
\* the first time or over an existing row, get(ctx, k) returns (v, m) and
\* list(ctx) has exactly one entry whose key is k.
C1_UpsertRoundTrip ==
    (IsResourceCall(last, "set") /\ last.ok) =>
        LET rows == tables[resource_table(last.res)]
            a == last.args
            listed == PersistentResource_list(rows, a.context, FALSE).out
        IN  /\ PersistentResource_get(rows, a.context, a.key)
                  = Ok(<<a.resource, a.mime_type>>)
            /\ BagCardinality(Where(listed, {e \in DOMAIN listed :
                                                e.key = a.key})) = 1

\* A second set of a key, with a new content and a new type, beside another
\* key of the same context.
C1_Witness ==
    /\ IsResourceCall(last, "set")
    /\ last.ok
    /\ last.out = <<"updated">>
    /\ last.args.resource = "v2"
    /\ last.args.mime_type = "text/markdown"
    /\ BagCardinality(tables[resource_table(last.res)]) = 2

ResourceKeyUnique ==
    \A t \in {"snippet", "summary"} :
        \A context \in {r.context : r \in DOMAIN tables[t]},
           key \in {r.key : r \in DOMAIN tables[t]} :
            BagCardinality(Stored(tables[t], context, key)) <= 1

SetOverwrites ==
    (IsResourceCall(last', "set")
        /\ Stored(tables[resource_table(last'.res)],
                  last'.args.context, last'.args.key) # EmptyBag)
    => LET t == resource_table(last'.res)
           a == last'.args
       IN  /\ last'.ok
           /\ BagCardinality(tables'[t]) = BagCardinality(tables[t])
           /\ Stored(tables'[t], a.context, a.key)
                 = SetToBag({[type |-> a.mime_type, context |-> a.context,
                              key |-> a.key, content |-> a.resource]})

\* C2: in every reachable state a snippet or summary table holds at most one
\* row for each (context, key) pair, and a set on an existing pair succeeds,
\* replaces that row and leaves the number of rows as it was.
C2_KeyUnique == []ResourceKeyUnique /\ [][SetOverwrites]_vars

\* Two rows in one table, the last call a set that overwrote one of them.
C2_Witness ==
    /\ IsResourceCall(last, "set")
    /\ last.ok
    /\ last.out = <<"updated">>
    /\ BagCardinality(tables[resource_table(last.res)]) = 2
    /\ last.args.resource = "v"

\* C3: Rule.set on a (context, rule) pair already stored with the same
\* policy fails with AlreadyExists and leaves the store as it was.
C3_SamePolicyRejected ==
    [][(IsRuleCall(last', "set")
          /\ \E r \in DOMAIN StoredRule(tables["rules"], last'.args.context,
                                        last'.args.rule) :
                r.policy = last'.args.policy)
       => (~last'.ok /\ last'.kind = "AlreadyExists" /\ tables' = tables)]_vars

\* The same rule set again with its policy, in the default context.
C3_Witness ==
    /\ IsRuleCall(last, "set")
    /\ ~last.ok
    /\ last.kind = "AlreadyExists"
    /\ last.args.context = None
    /\ StoredRule(tables["rules"], None, last.args.rule) # EmptyBag

\* C4, as claimed: Rule.set(context, p2, rule), p2 one of the five policies,
\* on a pair stored with another policy p1 succeeds and reports the change
\* from p1 to p2; afterwards list(context) shows the rule exactly once, with
\* policy p2, and the number of rows is unchanged.
C4_PolicyUpdateListed ==
    [][(IsRuleCall(last', "set")
          /\ last'.args.policy \in ALLOWED_RULE_POLICIES
          /\ \E r \in DOMAIN StoredRule(tables["rules"], last'.args.context,
                                        last'.args.rule) :
                r.policy # last'.args.policy)
       => LET a == last'.args
              p1 == (CHOOSE r \in DOMAIN StoredRule(tables["rules"],
                                                   a.context, a.rule) :
                        TRUE).policy
              listed == Rule_list(tables'["rules"], a.context).out
          IN  /\ last'.ok
              /\ last'.out = <<"Policy updated", p1, a.policy>>
              /\ BagCardinality(tables'["rules"])
                    = BagCardinality(tables["rules"])
              /\ Where(listed, {e \in DOMAIN listed : e.rule = a.rule})
                    = SetToBag({[policy |-> a.policy, rule |-> a.rule]})]_vars

RuleKeyUnique ==
    \A context \in {r.context : r \in DOMAIN tables["rules"]},
       rule \in {r.rule : r \in DOMAIN tables["rules"]} :
        BagCardinality(StoredRule(tables["rules"], context, rule)) <= 1

\* C5: in every reachable state the rules table holds at most one row for
\* each (context, rule) pair, for a named context and for the default
\* (absent) context alike.
C5_RuleUnique == RuleKeyUnique

\* The default context holds a rule whose policy a second set has changed.
C5_Witness ==
    /\ IsRuleCall(last, "set")
    /\ last.ok
    /\ last.args.context = None
    /\ Len(last.out) = 3
    /\ BagCardinality(tables["rules"]) = 2

AllPoliciesAllowed ==
    \A r \in DOMAIN tables["rules"] : r.policy \in ALLOWED_RULE_POLICIES

InvalidPolicyRejected ==
    (IsRuleCall(last', "set")
        /\ last'.args.policy \notin ALLOWED_RULE_POLICIES)
    => (~last'.ok /\ last'.kind = "NotValid" /\ tables' = tables)

\* C6: Rule.set with a policy outside the five allowed values fails with
\* NotValid and leaves every row as it was; in every reachable state every
\* stored rule's policy is one of the five.
C6_InvalidPolicy == []AllPoliciesAllowed /\ [][InvalidPolicyRejected]_vars

\* A set with policy MAYBE on a rule that is stored, rejected.
C6_Witness ==
    /\ IsRuleCall(last, "set")
    /\ last.args.policy = "MAYBE"
    /\ last.kind = "NotValid"
    /\ StoredRule(tables["rules"], last.args.context, last.args.rule)
          # EmptyBag

RemoveMissing ==
    (last'.op = "remove" /\ last'.res \in resource_types
        /\ IF last'.res = "rule"
           THEN StoredRule(tables["rules"], last'.args.context,
                           last'.args.rule) = EmptyBag
           ELSE Stored(tables[resource_table(last'.res)], last'.args.context,
                       last'.args.key) = EmptyBag)
    => (~last'.ok /\ last'.kind = "NotFound" /\ tables' = tables)

\* C7: for snippet, summary and rule, remove of a pair that is not stored
\* fails with NotFound and leaves the rows of every table as they were.
C7_RemoveMissing == [][RemoveMissing]_vars

\* A rule of the default context, and a failed remove of it under the empty
\* string.
C7_Witness ==
    /\ IsRuleCall(last, "remove")
    /\ ~last.ok
    /\ last.kind = "NotFound"
    /\ last.args.context = ""
    /\ StoredRule(tables["rules"], None, last.args.rule) # EmptyBag

IsBackupCall(call, ops) ==
    call.res = "backup" /\ call.op \in ops

\* C8: a restore of a name that a create returned, whose backup is still
\* there, succeeds and makes the store file's content, the rows of all three
\* tables, what it was when that create returned, whatever happened to the
\* store since.
C8_RestoreRoundTrip ==
    [][(IsBackupCall(last', {"restore", "my_context_backup_restore"})
          /\ last'.args.name \in DOMAIN created)
       => (/\ last'.ok
           /\ exists'
           /\ tables' = created[last'.args.name])]_vars

\* A restore that succeeded, with another backup whose content differs: the
\* store has changed between the two creates.
C8_Witness ==
    /\ IsBackupCall(last, {"restore"})
    /\ last.ok
    /\ tables # EmptyStore
    /\ \E n \in DOMAIN created : created[n] # tables

\* C9: create(n) when a backup named n exists fails with AlreadyExists and
\* overwrites nothing: the directory is as it was, list shows n exactly
\* once, and the backup's content is the one the first create stored.
C9_CreateCollision ==
    [][(IsBackupCall(last', {"create"})
          /\ ~Falsy(last'.args.name)
          /\ backup_path(last'.args.name, target) \in DOMAIN backups)
       => LET n == last'.args.name
              listed == Backup_list(backups').out
          IN  /\ ~last'.ok
              /\ last'.kind = "AlreadyExists"
              /\ backups' = backups
              /\ Cardinality({f \in DOMAIN listed : listed[f] = n}) = 1
              /\ backups'[backup_path(n, target)] = created[n]]_vars

\* A second create of a name, rejected, after the store has changed.
C9_Witness ==
    /\ IsBackupCall(last, {"create"})
    /\ ~last.ok
    /\ last.kind = "AlreadyExists"
    /\ backups[backup_path(last.args.name, target)] # tables

\* C10, as claimed, for a store file that exists: a restore or remove
\* request (Backup.restore, Backup.remove, my_context_backup_restore) that
\* names a backup which does not exist fails with NotFound and leaves the
\* store file and the set of backup entries as they were.
C10_MissingBackupNoChange ==
    [][(IsBackupCall(last', {"restore", "remove", "my_context_backup_restore"})
          /\ exists
          /\ backup_path(last'.args.name, target) \notin DOMAIN backups)
       => (/\ ~last'.ok
           /\ last'.kind = "NotFound"
           /\ tables' = tables
           /\ exists' = exists
           /\ backups' = backups)]_vars

\* C11: a backup is immutable: as long as it is there, from the create that
\* made it until a remove or a clear deletes it, its content is the content
\* the store file had when that create returned, whatever sets and removes
\* on the store, creates of other backups and restores happened since.
C11_BackupImmutable ==
    \A n \in DOMAIN created :
        /\ backup_path(n, target) \in DOMAIN backups
        /\ backups[backup_path(n, target)] = created[n]

\* Two backups of different content, and a store that a set or a remove has
\* changed after a restore: the store differs from both of them.
C11_Witness ==
    /\ last.res \in resource_types
    /\ last.op \in {"set", "remove"}
    /\ last.ok
    /\ Cardinality(DOMAIN created) = 2
    /\ \A n \in DOMAIN created : created[n] # tables
    /\ \E n, m \in DOMAIN created : created[n] # created[m]

ClearEmptiesOrFails ==
    IsBackupCall(last', {"clear"}) =>
        IF DOMAIN backups = {}
        THEN /\ ~last'.ok
             /\ last'.kind = "NotFound"
             /\ backups' = backups
             /\ tables' = tables
             /\ exists' = exists
        ELSE /\ last'.ok
             /\ DOMAIN backups' = {}
             /\ Backup_list(backups').out = <<>>
             /\ ~Backup_clear(backups').result.ok
             /\ Backup_clear(backups').result.kind = "NotFound"

\* C13: Backup.clear() fails with NotFound exactly when the backup directory
\* holds no backup, and then changes nothing; otherwise it succeeds and
\* deletes every backup, so that list() is empty right afterwards and a
\* clear() that follows fails with NotFound.
C13_Clear == [][ClearEmptiesOrFails]_vars

\* A clear that failed on an empty directory, right after a clear that
\* emptied it: the names created before are all forgotten.
C13_Witness ==
    /\ IsBackupCall(last, {"clear"})
    /\ ~last.ok
    /\ last.kind = "NotFound"
    /\ clock = MaxClock
    /\ exists
    /\ DOMAIN backups = {}

\* C12, as claimed: for every base name of the target file, and after any
\* sequence of create, remove and clear, Backup.list() returns exactly the
\* names whose create succeeded and whose backup was not removed or cleared
\* since, each of them once; with no backup it returns the empty list.
C12_ListExact ==
    IsBackupCall(last, {"list"}) =>
        /\ last.ok
        /\ {last.out[f] : f \in DOMAIN last.out} = DOMAIN created
        /\ Cardinality(DOMAIN last.out) = Cardinality(DOMAIN created)

\* C14, as claimed: the rule operations agree on every namespace, the
\* default (absent) context included, which is not the empty string: after
\* Rule.set(context, p, r) succeeds, list(context) contains {policy p,
\* rule r} and remove(context, r) succeeds, while list and remove for any
\* other context that holds no rule r of its own do not see the rule.
C14_NamespacesAgree ==
    [][(IsRuleCall(last', "set") /\ last'.ok)
       => LET a == last'.args
              rows == tables'["rules"]
          IN  /\ [policy |-> a.policy, rule |-> a.rule]
                    \in DOMAIN Rule_list(rows, a.context).out
              /\ Rule_remove(rows, a.context, a.rule).result.ok
              /\ \A other \in RuleContexts \ {a.context} :
                    StoredRule(rows, other, a.rule) = EmptyBag
                    => /\ \A e \in DOMAIN Rule_list(rows, other).out :
                             e.rule # a.rule
                       /\ ~Rule_remove(rows, other, a.rule).result.ok]_vars

\* C15, as claimed, on a registry that is not closed: a rule-remove request
\* for a stored (context, rule) removes the row and reports success when it
\* supplies the stored policy or no policy, and fails and leaves the row
\* when it supplies another policy.
C15_RemovePolicyMatch ==
    [][(/\ last'.op = "my_context_rule_remove"
        /\ db # "closed"
        /\ StoredRule(tables["rules"], OrMe(last'.args.context),
                      last'.args.rule) # EmptyBag)
       => LET a == last'.args
              found == StoredRule(tables["rules"], OrMe(a.context), a.rule)
              stored == (CHOOSE r \in DOMAIN found : TRUE).policy
          IN  IF a.policy = None \/ a.policy = stored
              THEN /\ last'.ok
                   /\ StoredRule(tables'["rules"], OrMe(a.context), a.rule)
                         = EmptyBag
              ELSE /\ ~last'.ok
                   /\ tables' = tables]_vars

IsLookup(call) ==
    call.op \in {"getitem", "my_context_list_resource",
                 "my_context_get_resource"}

LookedUp(call) ==
    IF call.op = "getitem" THEN call.res ELSE call.args.resource

\* C16, as claimed: the lookup of a handler by a name that is none of
\* "rule", "snippet" and "summary", at the registry (my[name]) or through a
\* resource handler of the server, fails with a NotValid resource error
\* before the store is reached: no connection is made, the store file and
\* its tables are not created, and no row is read or written.
C16_UnknownName ==
    [][(IsLookup(last') /\ LookedUp(last') \notin resource_types)
       => (/\ ~last'.ok
           /\ last'.kind = "NotValid"
           /\ db' = db
           /\ opened' = opened
           /\ exists' = exists
           /\ tables' = tables)]_vars

\* At most one connection, and every handler built holds it.
OneConnection ==
    /\ opened <= 1
    /\ \A name \in DOMAIN resources : resources[name] = 1

\* A step that makes a connection is a use of a resource: the lookup of one
\* of the three handlers, or a call on one.
OpenedByUse ==
    opened' # opened =>
        /\ last'.op # "close"
        /\ IsLookup(last') => LookedUp(last') \in resource_types

CloseTearsDown ==
    last'.op = "close" => db' = "closed"

\* C17, as claimed: over any sequence of handler lookups, resource
\* operations and close on one registry, a connection is made only by the
\* first use of a resource, at most one connection is ever made, the three
\* handlers all hold that connection, and close closes it.
C17_OneConnection ==
    []OneConnection /\ [][OpenedByUse /\ CloseTearsDown]_vars

\* create_db on a store file that exists gives the file back, table by
\* table and row by row, however often it runs.
SchemaInitKeepsStore ==
    exists =>
        /\ create_db(exists, tables) = tables
        /\ create_db(exists, create_db(exists, tables)) = tables
        /\ DOMAIN create_db(exists, tables) = TableNames

\* The first read of db by a registry made over a store file that exists,
\* in a lookup or a close, which do nothing else to the store.
ReopenKeepsRows ==
    (db = "unopened" /\ exists /\ last'.op \in {"getitem", "close"})
    => (opened' = opened + 1 /\ tables' = tables)

\* C18: the initialisation of the schema is idempotent: a registry opened
\* on a store file that holds rows, create_db running a second time or any
\* number of times, leaves every row of the rules, snippet and summary
\* tables as it was and the set of tables the same.
C18_SchemaInitIdempotent ==
    []SchemaInitKeepsStore /\ [][ReopenKeepsRows]_vars

\* The second registry over a store file with rows in two tables has made
\* its connection in close(), without any lookup before.
C18_Witness ==
    /\ last.op = "close"
    /\ opened = 2
    /\ resources = <<>>
    /\ tables["rules"] # EmptyBag
    /\ tables["snippet"] # EmptyBag

\* C19: the status that set(context, key, content, mime_type) returns on a
\* snippet or summary resource says "updated" exactly when a row for
\* (context, key) was stored right before the call, and "added" exactly
\* when none was.
C19_SetStatus ==
    [][IsResourceCall(last', "set")
       => LET had == Stored(tables[resource_table(last'.res)],
                            last'.args.context, last'.args.key) # EmptyBag
          IN  /\ last'.ok
              /\ (last'.out = <<"updated">>) <=> had
              /\ (last'.out = <<"added">>) <=> ~had]_vars

\* A key added to a context while another context of the same table holds
\* that key: the row of the other context does not make the set an update.
C19_Witness ==
    /\ IsResourceCall(last, "set")
    /\ last.ok
    /\ last.out = <<"added">>
    /\ \E r \in DOMAIN tables[resource_table(last.res)] :
          r.key = last.args.key /\ r.context # last.args.context

\* The abstract map of a table: (context, key) -> (content, mime_type).
Live(rows) ==
    [p \in {<<r.context, r.key>> : r \in DOMAIN rows} |->
        LET row == CHOOSE r \in DOMAIN rows : <<r.context, r.key>> = p
        IN  <<row.content, row.type>>]

\* A successful set binds its pair in the map, a successful remove unbinds
\* it, and nothing else changes the map: a pair is bound exactly when the
\* latest successful mutation of it was a set.  The table holds one row for
\* each bound pair.
MutationsMatchMap ==
    \A t \in {"snippet", "summary"} :
        LET a == last'.args
            p == <<a.context, a.key>>
            map == Live(tables[t])
        IN  /\ BagCardinality(tables'[t]) = Cardinality(DOMAIN Live(tables'[t]))
            /\ IF IsResourceCall(last', "set") /\ resource_table(last'.res) = t
                  /\ last'.ok
               THEN Live(tables'[t])
                       = [q \in DOMAIN map \cup {p} |->
                             IF q = p THEN <<a.resource, a.mime_type>>
                             ELSE map[q]]
               ELSE IF IsResourceCall(last', "remove")
                       /\ resource_table(last'.res) = t
               THEN /\ last'.ok <=> p \in DOMAIN map
                    /\ ~last'.ok => last'.kind = "NotFound"
                    /\ Live(tables'[t]) = [q \in DOMAIN map \ {p} |-> map[q]]
               ELSE Live(tables'[t]) = map

\* get and list answer from the map; they leave the table as it was, so
\* that it is the table they have read.
ReadsMatchMap ==
    LET a == last.args
        map == Live(tables[resource_table(last.res)])
    IN  /\ IsResourceCall(last, "get") =>
              IF <<a.context, a.key>> \in DOMAIN map
              THEN last.ok /\ last.out = map[<<a.context, a.key>>]
              ELSE ~last.ok /\ last.kind = "NotFound"
        /\ IsResourceCall(last, "list") =>
              LET keys == {p[2] : p \in {q \in DOMAIN map :
                                            q[1] = a.context}}
                  entry(k) ==
                      IF a.include_content
                      THEN [key |-> k,
                            mime_type |-> map[<<a.context, k>>][2],
                            content |-> map[<<a.context, k>>][1]]
                      ELSE [key |-> k,
                            mime_type |-> map[<<a.context, k>>][2]]
                  fields == IF a.include_content
                            THEN {"key", "mime_type", "content"}
                            ELSE {"key", "mime_type"}
              IN  /\ last.ok
                  /\ \A e \in DOMAIN last.out : DOMAIN e = fields
                  /\ last.out = SetToBag({entry(k) : k \in keys})

\* C20: after any sequence of set and remove calls on a snippet or summary
\* resource, the reads match an abstract map from (context, key) to
\* (content, mime_type): get(ctx, k) succeeds, with the pair's content and
\* type, exactly when the latest successful mutation of (ctx, k) was a set
\* and fails with NotFound otherwise; list(ctx) returns exactly one entry
\* for each such key of ctx, with its mime_type, and with its content only
\* when include_content is true.
C20_ReadsMatchMap == []ReadsMatchMap /\ [][MutationsMatchMap]_vars

\* A list without contents of a context of two keys, one set twice and the
\* other of another type.
C20_Witness ==
    /\ IsResourceCall(last, "list")
    /\ ~last.args.include_content
    /\ last.out = SetToBag({[key |-> "k", mime_type |-> "text/markdown"],
                            [key |-> "k2", mime_type |-> "text/plain"]})

\* The rows of a table of resource res that are not the one of (context,
\* name), name being the key of a snippet or summary and the text of a rule.
OtherRows(res, rows, context, name) ==
    WhereNot(rows, {r \in DOMAIN rows :
                       /\ r.context = context
                       /\ IF res = "rule" THEN r.rule = name
                          ELSE r.key = name})

SetRemoveFrame ==
    (last'.op \in {"set", "remove"} /\ last'.res \in resource_types)
    => LET res == last'.res
           t == resource_table(res)
           a == last'.args
           name == IF res = "rule" THEN a.rule ELSE a.key
       IN  /\ \A other \in TableNames \ {t} : tables'[other] = tables[other]
           /\ OtherRows(res, tables'[t], a.context, name)
                 = OtherRows(res, tables[t], a.context, name)
           /\ BagCardinality(tables'[t])
                 - BagCardinality(OtherRows(res, tables'[t], a.context, name))
                 <= 1

BackupFrame ==
    /\ IsBackupCall(last', {"create", "list", "remove", "clear"})
          => (tables' = tables /\ exists' = exists)
    /\ IsBackupCall(last', {"restore"}) => backups' = backups

\* C23: of the calls on the Backup only restore changes the store file:
\* create, list, remove and clear, succeeding or failing, leave the store
\* file and its content as they were; and restore leaves the backups, their
\* names and their contents, as they were.
C23_BackupFrame == [][BackupFrame]_vars

\* A backup removed while the store holds rows and another backup, of
\* another content, remains.
C23_Witness ==
    /\ IsBackupCall(last, {"remove"})
    /\ last.ok
    /\ exists
    /\ tables # EmptyStore
    /\ \E f \in DOMAIN backups : backups[f] # tables

\* The store, the registry, the backups and the clock before any request.
Started ==
    [exists |-> FALSE, db |-> "unopened", opened |-> 0, resources |-> <<>>,
     tables |-> EmptyStore, backups |-> <<>>, clock |-> 0]

\* The calls of a body, its segments one after the other.
RECURSIVE AllCalls(_)
AllCalls(body) ==
    IF body = <<>> THEN <<>> ELSE Head(body) \o AllCalls(Tail(body))

\* The states in which the requests of the set asked can leave the server
\* when one runs after the other, each from its first call to its last, in
\* any order.
RECURSIVE Sequential(_)
Sequential(asked) ==
    IF asked = {}
    THEN {Started}
    ELSE UNION {{Segment(st, AllCalls(Body(q.tool, q.backup_current)),
                         target).st :
                    st \in Sequential(asked \ {q})} : q \in asked}

Finished ==
    {q \in requests : q.ran = Len(Body(q.tool, q.backup_current))}

Suspended ==
    {q \in requests : 0 < q.ran /\ q.ran < Len(Body(q.tool, q.backup_current))}

\* C21: under any interleaving of concurrent requests on the cooperative
\* scheduler, each mutating entry point (set and remove of a snippet, a
\* summary and a rule; create, remove, clear and restore of backups, the
\* backup before a restore and that restore included) runs its calls on
\* the store and the backups with no suspension point between them, so
\* that the store and the backups are always in a state that some
\* sequential order of the requests that have run leaves them in.
C21_Serializable ==
    /\ Suspended = {}
    /\ Durable \in Sequential({[tool |-> q.tool,
                                backup_current |-> q.backup_current] :
                                  q \in Finished})

\* Four requests have run, the restore with its backup of the current store
\* last of them, after a backup and a remove: the store holds the snippet
\* again, and both backups hold it.
C21_Witness ==
    /\ Cardinality(Finished) = 4
    /\ last.op = "resume"
    /\ last.ok
    /\ last.args.tool = "my_context_backup_restore"
    /\ last.args.backup_current
    /\ \E q \in Finished : q.tool = "my_context_snippet_remove"
    /\ Cardinality(DOMAIN backups) = 2
    /\ tables["snippet"] # EmptyBag

====
